---- MODULE Spec2Model ----
(***************************************************************************)
(* imohash: sampled 128-bit fingerprints of byte sources (src/src/lib.rs). *)
(*                                                                         *)
(* Fixed-width integers are kept at their width.  A u32 is two 16-bit      *)
(* limbs, a u64 (and usize) four, a u128 eight, least significant limb     *)
(* first, so that 4 * sample_size wraps exactly where the u32 product      *)
(* wraps and sizes up to 2^64-1 can be encoded.                            *)
(*                                                                         *)
(* A byte string (a slice, a file's contents, a Vec<u8>) is a length and   *)
(* the set of offsets that hold MarkByte; every other offset holds         *)
(* FillByte.  Two such records are equal exactly when the byte strings     *)
(* are, whatever the length.                                               *)
(***************************************************************************)
EXTENDS Integers, Sequences, FiniteSets, TLC

LimbBase == 2^16

\* Limbs of a u32, of a u64 (and usize), of a u128.
Limbs32 == 2
Limbs64 == 4
Limbs128 == 8

\* The limbs of a number n < 2^31, at width w limbs.
FromNat(n, w) ==
    [i \in 1..w |-> IF i = 1 THEN n % LimbBase
                    ELSE IF i = 2 THEN n \div LimbBase ELSE 0]

\* hi * 2^16 + lo as a u32.
U32(hi, lo) == <<lo, hi>>

\* `x as u64` (`as usize`, `as i64` of a u32) of a narrower unsigned value:
\* zero extension.
AsU64(x) == [i \in 1..Limbs64 |-> IF i <= Len(x) THEN x[i] ELSE 0]

IsZero(x) == \A i \in 1..Len(x) : x[i] = 0

\* a < b, for two values of the same width.
RECURSIVE LessFrom(_, _, _)
LessFrom(a, b, i) ==
    IF i = 0 THEN FALSE
    ELSE IF a[i] # b[i] THEN a[i] < b[i]
    ELSE LessFrom(a, b, i - 1)

Less(a, b) == LessFrom(a, b, Len(a))

Leq(a, b) == ~Less(b, a)

\* a + b at the width of a: the wrapped sum and the carry out.
RECURSIVE AddFrom(_, _, _, _, _)
AddFrom(a, b, i, carry, acc) ==
    IF i > Len(a) THEN [val |-> acc, carry |-> carry]
    ELSE LET t == a[i] + b[i] + carry
         IN AddFrom(a, b, i + 1, t \div LimbBase, Append(acc, t % LimbBase))

Add(a, b) == AddFrom(a, b, 1, 0, <<>>)

\* a - b at the width of a: the wrapped difference and the borrow out.
RECURSIVE SubFrom(_, _, _, _, _)
SubFrom(a, b, i, borrow, acc) ==
    IF i > Len(a) THEN [val |-> acc, borrow |-> borrow]
    ELSE LET t == a[i] - b[i] - borrow
         IN SubFrom(a, b, i + 1, IF t < 0 THEN 1 ELSE 0,
                    Append(acc, (t + LimbBase) % LimbBase))

Sub(a, b) == SubFrom(a, b, 1, 0, <<>>)

\* k * a at the width of a, for a small factor k: the wrapped product and
\* what was carried out of the top limb (non-zero exactly when the product
\* does not fit the width).
RECURSIVE MulFrom(_, _, _, _, _)
MulFrom(k, a, i, carry, acc) ==
    IF i > Len(a) THEN [val |-> acc, carry |-> carry]
    ELSE LET t == k * a[i] + carry
         IN MulFrom(k, a, i + 1, t \div LimbBase, Append(acc, t % LimbBase))

Mul(k, a) == MulFrom(k, a, 1, 0, <<>>)

\* a >> k for 0 <= k < 16.
Shr(a, k) ==
    [i \in 1..Len(a) |->
        (a[i] \div 2^k)
        + (IF i < Len(a) THEN (a[i + 1] % 2^k) * 2^(16 - k) ELSE 0)]

U64(n) == FromNat(n, Limbs64)

Zero64 == U64(0)

Zero128 == FromNat(0, Limbs128)

----------------------------------------------------------------------------
(* Byte strings.                                                           *)

\* The bytes of the test inputs: b'A' everywhere, b'B' at the changed offsets.
FillByte == 65
MarkByte == 66

Bytes(len, marks) == [len |-> len, marks |-> marks]

EmptyBytes == Bytes(Zero64, {})

\* data[off]
ByteAt(data, off) == IF off \in data.marks THEN MarkByte ELSE FillByte

\* data[from .. from + n), re-based at 0 (from + n <= data.len).
Slice(data, from, n) ==
    Bytes(n, {Sub(p, from).val :
                 p \in {q \in data.marks :
                           Leq(from, q) /\ Less(q, Add(from, n).val)}})

\* Concat with the later piece put first.
ConcatSwapped(a, b) ==
    Bytes(Add(a.len, b.len).val,
          b.marks \cup {Add(b.len, p).val : p \in a.marks})

\* Vec::append: a followed by b.
Concat(a, b) ==
    Bytes(Add(a.len, b.len).val,
          a.marks \cup {Add(a.len, p).val : p \in b.marks})

----------------------------------------------------------------------------
(* The hasher and its readers.                                             *)

SAMPLE_THRESHOLD == U32((128 * 1024) \div LimbBase, (128 * 1024) % LimbBase)
SAMPLE_SIZE == U32((16 * 1024) \div LimbBase, (16 * 1024) % LimbBase)

\* Hasher::new
New == [sample_threshold |-> SAMPLE_THRESHOLD, sample_size |-> SAMPLE_SIZE]

\* Hasher::with_sample_size_and_threshold
WithSampleSizeAndThreshold(size, threshold) ==
    [sample_threshold |-> threshold, sample_size |-> size]

\* io::Result: Ok(value) or Err(error); a panic unwinds out of the call.
Ok(v) == [tag |-> "ok", value |-> v, error |-> ""]
Err(e) == [tag |-> "err", value |-> Zero128, error |-> e]
Panicked == [tag |-> "panic", value |-> Zero128, error |-> ""]
Pending == [tag |-> "none", value |-> Zero128, error |-> ""]

\* BufReader over a Cursor (kind "slice") or a File (kind "file").
Reader(data, kind) == [data |-> data, pos |-> Zero64, kind |-> kind]

\* Whether the device may fail an operation: a Cursor never does.
Faults(r) == IF r.kind = "file" THEN BOOLEAN ELSE {FALSE}

\* Seek::seek(SeekFrom::End(-back)): the new position, or an error when it
\* would be negative.
SeekEnd(r, back) ==
    IF Less(r.data.len, back)
    THEN [ok |-> FALSE, error |-> "InvalidInput", reader |-> r]
    ELSE [ok |-> TRUE, error |-> "",
          reader |-> [r EXCEPT !.pos = Sub(r.data.len, back).val]]

\* SeekStart landing one byte late.
SeekStartOneLate(r, to) == [r EXCEPT !.pos = Add(to, U64(1)).val]

\* Seek::seek(SeekFrom::Start(to)); a position past the end is allowed.
SeekStart(r, to) == [r EXCEPT !.pos = to]

\* Bytes left between the position and the end.
Available(r) ==
    IF Less(r.data.len, r.pos) THEN Zero64 ELSE Sub(r.data.len, r.pos).val

\* ReadExact settling, like Read::read, for the bytes that are left.
ReadExactShort(r, n) ==
    LET m == IF Less(Available(r), n) THEN Available(r) ELSE n
    IN [ok |-> TRUE, error |-> "", bytes |-> Slice(r.data, r.pos, m),
        reader |-> [r EXCEPT !.pos = Add(r.pos, m).val]]

\* Read::read_exact into a buffer of n bytes: all n bytes, or UnexpectedEof.
ReadExact(r, n) ==
    IF Less(Available(r), n)
    THEN [ok |-> FALSE, error |-> "UnexpectedEof", bytes |-> EmptyBytes,
          reader |-> r]
    ELSE [ok |-> TRUE, error |-> "", bytes |-> Slice(r.data, r.pos, n),
          reader |-> [r EXCEPT !.pos = Add(r.pos, n).val]]

\* Read::read_to_end: everything from the position to the end.
ReadToEnd(r) ==
    [bytes |-> Slice(r.data, r.pos, Available(r)),
     reader |-> [r EXCEPT !.pos = IF Less(r.data.len, r.pos) THEN r.pos
                                  ELSE r.data.len]]

----------------------------------------------------------------------------
(* Post-processing of the mix value.                                       *)

\* u128::rotate_right(bits), bits a multiple of 16.
RotateRight(x, bits) ==
    [i \in 1..Limbs128 |-> x[((i - 1 + bits \div 16) % Limbs128) + 1]]

\* SwapBytes reversing 16-bit units, the two bytes of each left in place.
SwapLimbs(x) == [i \in 1..Limbs128 |-> x[Limbs128 + 1 - i]]

\* u128::swap_bytes: the sixteen bytes in reverse order.
SwapBytes(x) ==
    [i \in 1..Limbs128 |->
        LET l == x[Limbs128 + 1 - i] IN (l % 256) * 256 + l \div 256]

\* u128::to_le_bytes
ToLeBytes(x) ==
    [k \in 1..(2 * Limbs128) |->
        IF k % 2 = 1 THEN x[(k + 1) \div 2] % 256 ELSE x[k \div 2] \div 256]

\* u128::from_le_bytes
FromLeBytes(b) ==
    [i \in 1..Limbs128 |-> b[2 * i - 1] + 256 * b[2 * i]]

\* `mx as u8`, the continuation bit left out.
LowByte(mx) == mx[1] % 256

\* `mx as u8 | 0x80`
LowByteWithContinuation(mx) ==
    LET b == mx[1] % 256 IN IF b \div 128 = 1 THEN b ELSE b + 128

\* put_uvarint, from the top of its loop with i bytes written (i counts from
\* 0 as in the code; buf is indexed from 1).  An index past the buffer panics.
RECURSIVE PutUvarintFrom(_, _, _)
PutUvarintFrom(buf, i, mx) ==
    IF i + 1 > Len(buf) THEN [panic |-> TRUE, buf |-> buf, n |-> i]
    ELSE IF ~Less(mx, U64(128))
    THEN PutUvarintFrom([buf EXCEPT ![i + 1] = LowByteWithContinuation(mx)],
                        i + 1, Shr(mx, 7))
    ELSE [panic |-> FALSE, buf |-> [buf EXCEPT ![i + 1] = mx[1] % 256],
          n |-> i + 1]

PutUvarint(buffer, x) == PutUvarintFrom(buffer, 0, x)

\* Lines 80-82 of hash: the fingerprint of a mix value and a size.
Fingerprint(hash_result_, size_) ==
    LET hash_bytes == ToLeBytes(SwapBytes(RotateRight(hash_result_, 64)))
        put == PutUvarint(hash_bytes, size_)
    IN IF put.panic THEN Panicked ELSE Ok(FromLeBytes(put.buf))

----------------------------------------------------------------------------
(* State.                                                                  *)

VARIABLES
    pc,           \* where the call in progress stands in hash ("idle": none)
    self,         \* the Hasher of the call
    reader,       \* the BufReader handed to hash
    size,         \* hash's local `size`
    buffer,       \* hash's local `buffer`
    first_buf,    \* hash's local `first_buf`
    middle_buf,   \* hash's local `middle_buf`
    last_buf,     \* hash's local `last_buf`
    hash_result,  \* hash's local `hash_result`
    branch,       \* which arm of the `if` at line 61 the call took
    io,           \* the seeks and reads the call has made, in order
    ret,          \* what the call returned
    prev          \* the call before this one: its hasher, input and outcome

locals == <<size, buffer, first_buf, middle_buf, last_buf, hash_result>>

vars == <<pc, self, reader, size, buffer, first_buf, middle_buf, last_buf,
          hash_result, branch, io, ret, prev>>

----------------------------------------------------------------------------
(* Inputs.                                                                 *)

\* How many offsets of an input may hold MarkByte.
MaxMarks == 1

\* The default hasher, the tests' hashers, and a sample size whose
\* product with 4 does not fit a u32 (2^30).
Hashers ==
    { New,
      WithSampleSizeAndThreshold(U32(0, 3), U32(0, 45)),
      WithSampleSizeAndThreshold(U32(0, 0), U32(0, 100)),
      WithSampleSizeAndThreshold(U32(0, 250), U32(0, 20)),
      WithSampleSizeAndThreshold(U32(16384, 0), U32(0, 0)) }

\* 2^e as a u64, e < 64.
PowerOfTwo(e) ==
    [i \in 1..Limbs64 |-> IF i - 1 = e \div 16 THEN 2^(e % 16) ELSE 0]

\* Input lengths: on both sides of each hasher's boundaries and of the
\* lengths where the varint grows, and 2^31.
Sizes ==
    { U64(0), U64(44), U64(45), U64(128), U64(999), U64(1000), U64(131072),
      PowerOfTwo(31) }

\* Lengths whose inputs also come with changed bytes, and the offsets that
\* may change: the last of the first zone, the first after it, the first of
\* the middle zone, the first of the last zone (of the hasher (3, 45) on 45
\* bytes, as in test_custom), and 2^30.
MarkedSizes == { U64(45), PowerOfTwo(31) }

MarkOffsets == { U64(2), U64(3), U64(22), U64(42), PowerOfTwo(30) }

InputsOfLength(n) ==
    { Bytes(n, m) : m \in { x \in SUBSET { o \in MarkOffsets : Less(o, n) } :
                               Cardinality(x) <= MaxMarks } }

Inputs ==
    { Bytes(n, {}) : n \in Sizes }
    \cup UNION { InputsOfLength(n) : n \in MarkedSizes }

\* Values the mixing function may return on a non-empty input.
MixValues ==
    { [i \in 1..Limbs128 |-> (2 * (i - 1)) + 256 * (2 * (i - 1) + 1)],
      [i \in 1..Limbs128 |-> (240 + 2 * (i - 1)) + 256 * (240 + 2 * (i - 1) + 1)] }

\* murmur3::murmur3_x64_128(bytes, 0): a function of the bytes.  Its value
\* on the empty input is 0 (the tests' first vector); on the input of the
\* previous call it is what it was then; elsewhere it is not constrained.
Murmur3(bytes) ==
    IF bytes = EmptyBytes THEN {Zero128}
    ELSE IF prev.mixed /\ prev.buffer = bytes THEN {prev.hash_result}
    ELSE MixValues

NoCall ==
    [self |-> New, data |-> EmptyBytes, kind |-> "none", size |-> Zero64,
     branch |-> "none", mixed |-> FALSE, buffer |-> EmptyBytes,
     hash_result |-> Zero128, ret |-> Pending]

Init ==
    /\ pc = "idle"
    /\ self = New
    /\ reader = Reader(EmptyBytes, "none")
    /\ size = Zero64
    /\ buffer = EmptyBytes
    /\ first_buf = EmptyBytes
    /\ middle_buf = EmptyBytes
    /\ last_buf = EmptyBytes
    /\ hash_result = Zero128
    /\ branch = "none"
    /\ io = <<>>
    /\ ret = Pending
    /\ prev = NoCall

----------------------------------------------------------------------------
(* One call.                                                               *)

\* One seek or read of the call: what was asked (want bytes, for a read),
\* what the source had left (avail), and how it ended.
IoOk(op, want, avail) ==
    [op |-> op, ok |-> TRUE, error |-> "", want |-> want, avail |-> avail]
IoErr(op, e, want, avail) ==
    [op |-> op, ok |-> FALSE, error |-> e, want |-> want, avail |-> avail]

\* The `?` on a failed step: hash returns the error.
Raise(step) ==
    /\ io' = Append(io, step)
    /\ ret' = Err(step.error)
    /\ pc' = "returned"

Enter(h, r) ==
    /\ self' = h
    /\ reader' = r
    /\ size' = Zero64
    /\ buffer' = EmptyBytes
    /\ first_buf' = EmptyBytes
    /\ middle_buf' = EmptyBytes
    /\ last_buf' = EmptyBytes
    /\ hash_result' = Zero128
    /\ branch' = "none"
    /\ UNCHANGED prev

\* Hasher::sum (lines 39-42)
Sum(h, data) ==
    /\ pc = "idle"
    /\ Enter(h, Reader(data, "slice"))
    /\ io' = <<>>
    /\ ret' = Pending
    /\ pc' = "seek_end"

\* Hasher::sum_file (lines 45-52): canonicalize and open may fail.
SumFile(h, data, failure) ==
    /\ pc = "idle"
    /\ Enter(h, Reader(data, "file"))
    /\ IF failure = "none"
       THEN io' = <<>> /\ ret' = Pending /\ pc' = "seek_end"
       ELSE /\ io' = <<IoErr(failure, "NotFound", Zero64, Zero64)>>
            /\ ret' = Err("NotFound")
            /\ pc' = "returned"

\* line 59: let size = reader.seek(SeekFrom::End(0))?;
SeekSize ==
    /\ pc = "seek_end"
    /\ \E fault \in Faults(reader) :
         IF fault
         THEN /\ Raise(IoErr("seek_end", "Other", Zero64, Zero64))
              /\ UNCHANGED <<self, reader, locals, branch, prev>>
         ELSE LET r == SeekEnd(reader, Zero64)
              IN /\ reader' = r.reader
                 /\ size' = r.reader.pos
                 /\ io' = Append(io, IoOk("seek_end", Zero64, Zero64))
                 /\ pc' = "rewind"
                 /\ UNCHANGED <<self, buffer, first_buf, middle_buf, last_buf,
                                hash_result, branch, ret, prev>>

\* line 60: reader.rewind()?;
Rewind ==
    /\ pc = "rewind"
    /\ \E fault \in Faults(reader) :
         IF fault
         THEN /\ Raise(IoErr("rewind", "Other", Zero64, Zero64))
              /\ UNCHANGED <<self, reader, locals, branch, prev>>
         ELSE /\ reader' = SeekStart(reader, Zero64)
              /\ io' = Append(io, IoOk("rewind", Zero64, Zero64))
              /\ pc' = "branch"
              /\ UNCHANGED <<self, locals, branch, ret, prev>>

\* What `4 * self.sample_size` (a u32 product) can evaluate to: the wrapped
\* product, and, when the product does not fit a u32, also a panic (a build
\* with overflow checks panics, one without wraps).
Product4(sample_size) ==
    LET m == Mul(4, sample_size)
    IN IF m.carry = 0
       THEN {[panic |-> FALSE, val |-> m.val]}
       ELSE {[panic |-> FALSE, val |-> m.val], [panic |-> TRUE, val |-> m.val]}

\* lines 61-64 and 66: the condition of the `if`, its operands evaluated left
\* to right and only as far as needed.  "full", "sample" or "panic".
Decide(h, size_, product) ==
    IF IsZero(h.sample_size) THEN "full"
    ELSE IF Less(size_, AsU64(h.sample_threshold)) THEN "full"
    ELSE IF product.panic THEN "panic"
    ELSE IF Less(size_, AsU64(product.val)) THEN "full"
    ELSE "sample"

Branch ==
    /\ pc = "branch"
    /\ \E product \in Product4(self.sample_size) :
         LET d == Decide(self, size, product)
         IN /\ branch' = d
            /\ pc' = CASE d = "full" -> "read_to_end"
                       [] d = "sample" -> "read_first"
                       [] OTHER -> "returned"
            /\ ret' = IF d = "panic" THEN Panicked ELSE ret
    /\ UNCHANGED <<self, reader, locals, io, prev>>

\* line 65: reader.read_to_end(&mut buffer)?;
ReadWhole ==
    /\ pc = "read_to_end"
    /\ \E fault \in Faults(reader) :
         IF fault
         THEN /\ Raise(IoErr("read_to_end", "Other", Zero64, Available(reader)))
              /\ UNCHANGED <<self, reader, locals, branch, prev>>
         ELSE LET r == ReadToEnd(reader)
              IN /\ reader' = r.reader
                 /\ buffer' = Concat(buffer, r.bytes)
                 /\ io' = Append(io, IoOk("read_to_end", r.bytes.len,
                                          Available(reader)))
                 /\ pc' = "mix"
                 /\ UNCHANGED <<self, size, first_buf, middle_buf, last_buf,
                                hash_result, branch, ret, prev>>

\* vec![0u8; self.sample_size as usize] and reader.read_exact(..)?: the
\* step the read leaves in `io`, and the bytes it read.
ReadSample(op) ==
    LET want == AsU64(self.sample_size)
        r == ReadExact(reader, want)
    IN [read |-> r,
        step |-> IF r.ok THEN IoOk(op, want, Available(reader))
                 ELSE IoErr(op, r.error, want, Available(reader))]

\* lines 67-68
ReadFirst ==
    /\ pc = "read_first"
    /\ \E fault \in Faults(reader) :
         LET s == ReadSample("read_first")
         IN IF fault \/ ~s.read.ok
            THEN /\ Raise(IF fault
                          THEN IoErr("read_first", "Other", s.step.want,
                                     s.step.avail)
                          ELSE s.step)
                 /\ UNCHANGED <<self, reader, locals, branch, prev>>
            ELSE /\ reader' = s.read.reader
                 /\ first_buf' = s.read.bytes
                 /\ io' = Append(io, s.step)
                 /\ pc' = "seek_middle"
                 /\ UNCHANGED <<self, size, buffer, middle_buf, last_buf,
                                hash_result, branch, ret, prev>>

\* line 69: reader.seek(SeekFrom::Start(size / 2))?;
SeekMiddle ==
    /\ pc = "seek_middle"
    /\ \E fault \in Faults(reader) :
         IF fault
         THEN /\ Raise(IoErr("seek_middle", "Other", Zero64, Zero64))
              /\ UNCHANGED <<self, reader, locals, branch, prev>>
         ELSE /\ reader' = SeekStart(reader, Shr(size, 1))
              /\ io' = Append(io, IoOk("seek_middle", Zero64, Zero64))
              /\ pc' = "read_middle"
              /\ UNCHANGED <<self, locals, branch, ret, prev>>

\* lines 70-71
ReadMiddle ==
    /\ pc = "read_middle"
    /\ \E fault \in Faults(reader) :
         LET s == ReadSample("read_middle")
         IN IF fault \/ ~s.read.ok
            THEN /\ Raise(IF fault
                          THEN IoErr("read_middle", "Other", s.step.want,
                                     s.step.avail)
                          ELSE s.step)
                 /\ UNCHANGED <<self, reader, locals, branch, prev>>
            ELSE /\ reader' = s.read.reader
                 /\ middle_buf' = s.read.bytes
                 /\ io' = Append(io, s.step)
                 /\ pc' = "seek_last"
                 /\ UNCHANGED <<self, size, buffer, first_buf, last_buf,
                                hash_result, branch, ret, prev>>

\* line 72: reader.seek(SeekFrom::End(-(self.sample_size as i64)))?;
SeekLast ==
    /\ pc = "seek_last"
    /\ \E fault \in Faults(reader) :
         LET r == SeekEnd(reader, AsU64(self.sample_size))
         IN IF fault \/ ~r.ok
            THEN /\ Raise(IoErr("seek_last", IF fault THEN "Other" ELSE r.error,
                                Zero64, Zero64))
                 /\ UNCHANGED <<self, reader, locals, branch, prev>>
            ELSE /\ reader' = r.reader
                 /\ io' = Append(io, IoOk("seek_last", Zero64, Zero64))
                 /\ pc' = "read_last"
                 /\ UNCHANGED <<self, locals, branch, ret, prev>>

\* lines 73-74
ReadLast ==
    /\ pc = "read_last"
    /\ \E fault \in Faults(reader) :
         LET s == ReadSample("read_last")
         IN IF fault \/ ~s.read.ok
            THEN /\ Raise(IF fault
                          THEN IoErr("read_last", "Other", s.step.want,
                                     s.step.avail)
                          ELSE s.step)
                 /\ UNCHANGED <<self, reader, locals, branch, prev>>
            ELSE /\ reader' = s.read.reader
                 /\ last_buf' = s.read.bytes
                 /\ io' = Append(io, s.step)
                 /\ pc' = "append"
                 /\ UNCHANGED <<self, size, buffer, first_buf, middle_buf,
                                hash_result, branch, ret, prev>>

\* lines 75-77: Vec::append moves each zone onto the buffer and empties it.
AppendZones ==
    /\ pc = "append"
    /\ buffer' = Concat(Concat(Concat(buffer, first_buf), middle_buf), last_buf)
    /\ first_buf' = EmptyBytes
    /\ middle_buf' = EmptyBytes
    /\ last_buf' = EmptyBytes
    /\ pc' = "mix"
    /\ UNCHANGED <<self, reader, size, hash_result, branch, io, ret, prev>>

\* line 79: a Cursor over the buffer cannot fail the mixing function's reads.
Mix ==
    /\ pc = "mix"
    /\ \E h \in Murmur3(buffer) : hash_result' = h
    /\ pc' = "finish"
    /\ UNCHANGED <<self, reader, size, buffer, first_buf, middle_buf, last_buf,
                   branch, io, ret, prev>>

\* lines 80-82
Finish ==
    /\ pc = "finish"
    /\ ret' = Fingerprint(hash_result, size)
    /\ pc' = "returned"
    /\ UNCHANGED <<self, reader, locals, branch, io, prev>>

\* The caller takes the result.
Return ==
    /\ pc = "returned"
    /\ prev' = [self |-> self, data |-> reader.data, kind |-> reader.kind,
                size |-> size, branch |-> branch,
                mixed |-> ret.tag = "ok", buffer |-> buffer,
                hash_result |-> hash_result, ret |-> ret]
    /\ pc' = "idle"
    /\ UNCHANGED <<self, reader, locals, branch, io, ret>>

CallSteps ==
    \/ SeekSize
    \/ Rewind
    \/ Branch
    \/ ReadWhole
    \/ ReadFirst
    \/ SeekMiddle
    \/ ReadMiddle
    \/ SeekLast
    \/ ReadLast
    \/ AppendZones
    \/ Mix
    \/ Finish

\* Calls of sum on in-memory slices, one after the other.
Next ==
    \/ \E h \in Hashers, data \in Inputs : Sum(h, data)
    \/ CallSteps
    \/ Return

Spec == Init /\ [][Next]_vars

\* One call of sum_file, on a file whose seeks and reads may fail.
NextFile ==
    \/ \E h \in Hashers, data \in Inputs,
          failure \in {"none", "canonicalize", "open"} :
            SumFile(h, data, failure)
    \/ CallSteps

SpecFile == Init /\ [][NextFile]_vars

\* Lines 80-82 alone, on every mix value and size below.
LayoutSizes ==
    { Zero64, [i \in 1..Limbs64 |-> LimbBase - 1] }
    \cup { PowerOfTwo(7 * k) : k \in 1..((16 * Limbs64) \div 7) }
    \cup { Sub(PowerOfTwo(7 * k), U64(1)).val : k \in 1..((16 * Limbs64) \div 7) }

LayoutHashes == MixValues \cup { Zero128 }

InitFingerprint ==
    /\ pc = "finish"
    /\ self = New
    /\ reader = Reader(EmptyBytes, "none")
    /\ size \in LayoutSizes
    /\ buffer = EmptyBytes
    /\ first_buf = EmptyBytes
    /\ middle_buf = EmptyBytes
    /\ last_buf = EmptyBytes
    /\ hash_result \in LayoutHashes
    /\ branch = "none"
    /\ io = <<>>
    /\ ret = Pending
    /\ prev = NoCall

NextFingerprint == Finish

SpecFingerprint == InitFingerprint /\ [][NextFingerprint]_vars

----------------------------------------------------------------------------
(* What the claims speak of, stated on the source's bytes and lengths.     *)

\* 4 * sample_size, the exact product.
Exact4(sample_size) == Mul(4, AsU64(sample_size)).val

\* The sampling condition of the specification.
ShouldSample(h, n) ==
    /\ ~IsZero(h.sample_size)
    /\ Leq(AsU64(h.sample_threshold), n)
    /\ Leq(Exact4(h.sample_size), n)

\* Where the zones of a source of n bytes start.
MiddleStart(n) == Shr(n, 1)
LastStart(n, s) == Sub(n, s).val

\* from <= p < from + s
InZone(p, from, s) == Leq(from, p) /\ Less(p, Add(from, s).val)

\* The changed offsets of source[0..s) ++ source[mid..mid+s) ++
\* source[n-s..n), for a source of n bytes.
ZonesOf(data, s) ==
    LET n == data.len
    IN {p \in data.marks : InZone(p, Zero64, s)}
       \cup {Add(s, Sub(p, MiddleStart(n)).val).val :
                p \in {q \in data.marks : InZone(q, MiddleStart(n), s)}}
       \cup {Add(Mul(2, s).val, Sub(p, LastStart(n, s)).val).val :
                p \in {q \in data.marks : InZone(q, LastStart(n, s), s)}}

\* Whether an offset lies in one of the three zones.
Sampled(p, n, s) ==
    \/ InZone(p, Zero64, s)
    \/ InZone(p, MiddleStart(n), s)
    \/ InZone(p, LastStart(n, s), s)

\* The number of bytes of the base-128 varint of x.
VarintLen(x) ==
    IF \E n \in 1..9 : Less(x, PowerOfTwo(7 * n))
    THEN CHOOSE n \in 1..9 :
            /\ Less(x, PowerOfTwo(7 * n))
            /\ n = 1 \/ ~Less(x, PowerOfTwo(7 * (n - 1)))
    ELSE 10

\* Bits 7j .. 7j+6 of x.
Group7(x, j) ==
    LET q == (7 * j) \div 16
        r == (7 * j) % 16
        lo == x[q + 1] \div 2^r
        hi == IF q + 2 <= Len(x) THEN (x[q + 2] % 128) * 2^(16 - r) ELSE 0
    IN (lo + hi) % 128

\* Byte k (from 0) of the little-endian layout of a u128.
ByteOf(x, k) ==
    IF k % 2 = 0 THEN x[k \div 2 + 1] % 256 ELSE x[k \div 2 + 1] \div 256

\* Byte k (from 0) of T(h): the little-endian bytes of
\* byte-swap(rotate-right-64(h)).
TransformedByte(h, k) == IF k < 8 THEN ByteOf(h, 7 - k) ELSE ByteOf(h, 23 - k)

\* Byte k (from 0) of the fingerprint the specification gives h and a size.
LayoutByte(h, n, k) ==
    LET len == VarintLen(n)
    IN IF k < len - 1 THEN 128 + Group7(n, k)
       ELSE IF k = len - 1 THEN Group7(n, k)
       ELSE TransformedByte(h, k)

Returned == pc = "returned"

\* The call and the one before it both returned a fingerprint.
BothOk == Returned /\ ret.tag = "ok" /\ prev.ret.tag = "ok"

----------------------------------------------------------------------------
(* Claims.                                                                 *)

\* C1: hash reads the three sample zones if and only if sample_size >= 1,
\* size >= sample_threshold and size >= 4 * sample_size (the exact product);
\* in every other case it reads the entire source.
C1_SamplesIffEligible ==
    branch # "none" =>
        IF ShouldSample(self, reader.data.len)
        THEN branch = "sample" ELSE branch = "full"

\* C2: on the sampling branch the buffer handed to the mixing function has
\* length 3 * sample_size and is first zone, middle zone, last zone of the
\* source, in that order; on the full-read branch it is the whole source.
C2_WorkingBuffer ==
    pc = "mix" =>
        /\ branch = "sample" =>
              /\ buffer.len = Mul(3, AsU64(self.sample_size)).val
              /\ buffer.marks = ZonesOf(reader.data, AsU64(self.sample_size))
        /\ branch = "full" => buffer = reader.data

\* The hasher (3, 45) on 45 bytes whose offset 42, the first of the last
\* zone, is changed: the buffer has 9 bytes and its offset 6 is the changed one.
C2_Witness ==
    /\ pc = "mix"
    /\ branch = "sample"
    /\ self = WithSampleSizeAndThreshold(U32(0, 3), U32(0, 45))
    /\ reader.data = Bytes(U64(45), {U64(42)})
    /\ buffer = Bytes(U64(9), {U64(6)})

\* C3: a call on an input with size < 4 * sample_size or
\* size < sample_threshold returns what a hasher with sample_size = 0
\* returned on the same bytes.
C3_ModeEquivalence ==
    ( /\ Returned
      /\ prev.ret.tag = "ok"
      /\ IsZero(prev.self.sample_size)
      /\ prev.data = reader.data
      /\ \/ Less(reader.data.len, Exact4(self.sample_size))
         \/ Less(reader.data.len, AsU64(self.sample_threshold)) )
    => ret = prev.ret

\* C4: two fingerprints of one hasher on inputs of different lengths differ
\* at an index below the length of the shorter of the two varints.
C4_LengthSensitive ==
    ( /\ BothOk
      /\ prev.self = self
      /\ prev.data.len # reader.data.len )
    => \E k \in 0..15 :
          /\ k < VarintLen(prev.data.len)
          /\ k < VarintLen(reader.data.len)
          /\ ByteOf(ret.value, k) # ByteOf(prev.ret.value, k)

C4_Witness ==
    /\ BothOk
    /\ prev.self = self
    /\ prev.data.len # reader.data.len
    /\ VarintLen(prev.data.len) = 2
    /\ VarintLen(reader.data.len) = 2
    /\ hash_result = prev.hash_result

\* C5: two sampled inputs of the same length that agree on every offset of
\* the three zones get the same fingerprint from one hasher.
C5_GapInsensitive ==
    ( /\ Returned
      /\ prev.ret.tag # "none"
      /\ prev.self = self
      /\ prev.data.len = reader.data.len
      /\ branch = "sample"
      /\ prev.branch = "sample"
      /\ \A p \in prev.data.marks \cup reader.data.marks :
            Sampled(p, reader.data.len, AsU64(self.sample_size))
            => (p \in prev.data.marks <=> p \in reader.data.marks) )
    => ret = prev.ret

C5_Witness ==
    /\ BothOk
    /\ prev.self = self
    /\ prev.data.len = reader.data.len
    /\ branch = "sample"
    /\ prev.branch = "sample"
    /\ prev.data.marks = {}
    /\ reader.data.marks # {}
    /\ \A p \in reader.data.marks :
          ~Sampled(p, reader.data.len, AsU64(self.sample_size))
    /\ ret = prev.ret

\* C7: the fingerprint is T(h) with its first n bytes replaced by the varint
\* of size, n its length, 1 <= n <= 10, n = 1 exactly when size < 128; bytes
\* n..15 are those of T(h); put_uvarint returns n.
C7_FingerprintLayout ==
    Returned =>
        /\ ret.tag = "ok"
        /\ \A k \in 0..15 :
              ByteOf(ret.value, k) = LayoutByte(hash_result, size, k)
        /\ VarintLen(size) >= 1
        /\ VarintLen(size) <= 10
        /\ VarintLen(size) = 1 <=> Less(size, U64(128))
        /\ PutUvarint(ToLeBytes(SwapBytes(RotateRight(hash_result, 64))),
                      size).n = VarintLen(size)

C7_Witness ==
    /\ Returned
    /\ ret.tag = "ok"
    /\ VarintLen(size) = 10
    /\ hash_result # Zero128

\* C8: a call in which a seek or a read failed, or a zone's read found
\* fewer bytes than sample_size, returns that error; a fingerprint is
\* returned only when every seek and read succeeded in full.
C8_NoPartialResult ==
    Returned =>
        /\ \A i \in 1..Len(io) :
              (~io[i].ok \/ Less(io[i].avail, io[i].want))
              => /\ i = Len(io)
                 /\ ret = Err(io[i].error)
        /\ ret.tag = "ok" => \A i \in 1..Len(io) : io[i].ok

C8_Witness ==
    /\ Returned
    /\ Len(io) >= 3
    /\ io[Len(io)].op = "read_first"
    /\ Less(io[Len(io)].avail, io[Len(io)].want)
    /\ ret = Err("UnexpectedEof")

\* C9: on the sampling branch the three zones are pairwise disjoint, lie
\* inside the source, and cover fewer bytes than it has.
C9_ZoneGeometry ==
    branch = "sample" =>
        LET n == reader.data.len
            s == AsU64(self.sample_size)
        IN /\ Leq(s, n)
           /\ Leq(s, MiddleStart(n))
           /\ Leq(Add(MiddleStart(n), s).val, LastStart(n, s))
           /\ Less(Mul(3, s).val, n)

\* C10: sum on a slice always returns a fingerprint, whatever the hasher.
C10_SumNeverFails ==
    (Returned /\ reader.kind = "slice") => ret.tag = "ok"

====
